---- MODULE Spec2Model ----
(***************************************************************************)
(* Game of Life with cell ages (src/life.cpp): the generation engine       *)
(* (countNeighbors, calculateNextGeneration), the stability detector        *)
(* (isStable) and the run loop of runGame/runSimulation.                    *)
(*                                                                         *)
(* A Grid<int> is a record [numRows, numCols, elems], elems a function on   *)
(* the coordinates <<row, col>> of the grid.                                *)
(***************************************************************************)
EXTENDS Integers, Sequences, FiniteSets, TLC

VARIABLES
    pc,               \* where the program is (the blocking point it waits at)
    currentGrid,      \* runGame's currentGrid
    scratchGrid,      \* runSimulation's scratchGrid of the latest iteration
    stable,           \* what isStable returned in the latest iteration
    display,          \* the LifeDisplay, as the dimensions it was last given
    drawLog,          \* the drawCellAt calls made by the latest program step
    simulationSpeed,  \* runSimulation's simulationSpeed (0 before it is chosen)
    pauseLength,      \* runSimulation's pauseLength
    waited,           \* the milliseconds pause() was given by the latest poll
    events,           \* the mouse events the window has queued
    lineRead,         \* the lines getLine returned to the latest program step
    generations,      \* the number of advanceGrid calls of the run
    file              \* the lines of the file readInGrid is given

vars == <<pc, currentGrid, scratchGrid, stable, display, drawLog,
          simulationSpeed, pauseLength, waited, events, lineRead, generations,
          file>>

----------------------------------------------------------------------------
(* Program constants *)

kMaxAge == 12          \* declared in life-constants.h (life.cpp:19), 12 there
simSpeedMin == 1
simSpeedManual == 4
msToPauseMin == 1
msToPauseMid == 100
msToPauseMax == 500
stopWord == "quit"
userAffirmative == "yes"
userNegative == "no"
emptyCell == "-"
commentMark == "#"
fileRowDimension == 0
fileColDimension == 1

(* Bounds of the model *)

MaxDim == 3            \* rows and columns of a grid are in 0..MaxDim
MaxCells == 9          \* a grid has at most MaxCells cells
MaxInitAge == 2        \* the age of the older cells the generation engine is given
MaxPermCells == 4      \* grids this small are refilled in every visiting order
MaxStableCells == 2    \* cells of the grids the stability detector is applied to
MaxGens == 20          \* generations a run may commit
MaxEvents == 1         \* mouse events the window may hold queued
MaxFileLines == 5      \* lines of the files readInGrid is given

----------------------------------------------------------------------------
(* Grid<int> *)

Coords(nRows, nCols) == (0..(nRows - 1)) \X (0..(nCols - 1))

NewGrid(nRows, nCols) ==
    [numRows |-> nRows, numCols |-> nCols,
     elems |-> [p \in Coords(nRows, nCols) |-> 0]]

inBounds(g, row, col) ==
    row >= 0 /\ col >= 0 /\ row < g.numRows /\ col < g.numCols

Get(g, row, col) == g.elems[<<row, col>>]

Set(g, row, col, value) == [g EXCEPT !.elems[<<row, col>>] = value]

\* The cells of a grid in the order of `for row ... for col ...`.
RowMajor(g) ==
    [i \in 1..(g.numRows * g.numCols) |->
        <<(i - 1) \div g.numCols, (i - 1) % g.numCols>>]

----------------------------------------------------------------------------
(* countNeighbors *)

\* The (rowOffset, colOffset) pairs in the order the two loops produce them.
Offsets == [i \in 1..9 |-> <<((i - 1) \div 3) - 1, ((i - 1) % 3) - 1>>]

neighborHitSelf(g, row, col, rowOffset, colOffset) ==
    /\ inBounds(g, row + rowOffset, col + colOffset)
    /\ Get(g, row + rowOffset, col + colOffset) > 0

\* The body of the inner loop: does this offset add one to neighbors?
neighborHit(g, row, col, rowOffset, colOffset) ==
    /\ inBounds(g, row + rowOffset, col + colOffset)
    /\ ~(rowOffset = 0 /\ colOffset = 0)
    /\ Get(g, row + rowOffset, col + colOffset) > 0

RECURSIVE countFrom(_, _, _, _, _)
countFrom(g, row, col, i, neighbors) ==
    IF i > Len(Offsets) THEN neighbors
    ELSE countFrom(g, row, col, i + 1,
                   IF neighborHit(g, row, col, Offsets[i][1], Offsets[i][2])
                   THEN neighbors + 1 ELSE neighbors)

countNeighbors(g, row, col) == countFrom(g, row, col, 1, 0)

----------------------------------------------------------------------------
(* calculateNextGeneration *)

nextAgePostIncrement(age, neighbors) ==
    CASE neighbors = 2 -> IF age > 0 THEN age + 1 ELSE 0
      [] neighbors = 3 -> age
      [] OTHER -> 0

nextAgeBirthOnTwo(age, neighbors) ==
    CASE neighbors = 2 -> age + 1
      [] neighbors = 3 -> age + 1
      [] OTHER -> 0

nextAgeNoOvercrowding(age, neighbors) ==
    CASE neighbors = 2 -> IF age > 0 THEN age + 1 ELSE 0
      [] neighbors = 3 -> age + 1
      [] neighbors >= 4 -> IF age > 0 THEN age + 1 ELSE 0
      [] OTHER -> 0

nextAgeLonelySurvives(age, neighbors) ==
    CASE neighbors = 1 -> IF age > 0 THEN age + 1 ELSE 0
      [] neighbors = 2 -> IF age > 0 THEN age + 1 ELSE 0
      [] neighbors = 3 -> age + 1
      [] OTHER -> 0

\* The switch on neighbors: the age written to scratchGrid[row][col].
nextAge(age, neighbors) ==
    CASE neighbors = 2 -> IF age > 0 THEN age + 1 ELSE 0
      [] neighbors = 3 -> age + 1
      [] OTHER -> 0

\* The in-place variant: the new age is written to the grid being read too.
stepCellInPlace(st, row, col) ==
    LET age == Get(st.cur, row, col)
        neighbors == countNeighbors(st.cur, row, col)
        new == nextAge(age, neighbors)
    IN  [cur |-> Set(st.cur, row, col, new),
         scratch |-> Set(st.scratch, row, col, new)]

\* The body of the inner loop, on the pair (currentGrid, scratchGrid).
stepCell(st, row, col) ==
    LET age == Get(st.cur, row, col)
        neighbors == countNeighbors(st.cur, row, col)
    IN  [cur |-> st.cur,
         scratch |-> Set(st.scratch, row, col, nextAge(age, neighbors))]

RECURSIVE fillFrom(_, _, _)
fillFrom(st, order, i) ==
    IF i > Len(order) THEN st
    ELSE fillFrom(stepCell(st, order[i][1], order[i][2]), order, i + 1)

scratchOneRowMore(g) == NewGrid(g.numRows + 1, g.numCols)

\* The scratchGrid declared at the top of calculateNextGeneration.
scratchFor(g) == NewGrid(g.numRows, g.numCols)

\* The two loops, visiting the cells in the given order.
fillInOrder(g, order) ==
    fillFrom([cur |-> g, scratch |-> scratchFor(g)], order, 1)

\* calculateNextGeneration as a pass: both grids as the loops leave them.
nextGenerationPass(g) == fillInOrder(g, RowMajor(g))

calculateNextGeneration(g) == nextGenerationPass(g).scratch

----------------------------------------------------------------------------
(* isStable *)

tallyCellCopyPaste(t, cur, scr, row, col) ==
    [currentGridAge |-> t.currentGridAge + Get(cur, row, col),
     scratchGridAge |-> t.scratchGridAge + Get(scr, row, col),
     currentGridCells |-> t.currentGridCells + (IF Get(cur, row, col) > 0 THEN 1 ELSE 0),
     scratchGridCells |-> t.scratchGridCells + (IF Get(cur, row, col) > 0 THEN 1 ELSE 0)]

\* The body of the inner loop on the four counters.
tallyCell(t, cur, scr, row, col) ==
    [currentGridAge |-> t.currentGridAge + Get(cur, row, col),
     scratchGridAge |-> t.scratchGridAge + Get(scr, row, col),
     currentGridCells |-> t.currentGridCells + (IF Get(cur, row, col) > 0 THEN 1 ELSE 0),
     scratchGridCells |-> t.scratchGridCells + (IF Get(scr, row, col) > 0 THEN 1 ELSE 0)]

RECURSIVE tallyFrom(_, _, _, _, _)
tallyFrom(t, cur, scr, order, i) ==
    IF i > Len(order) THEN t
    ELSE tallyFrom(tallyCell(t, cur, scr, order[i][1], order[i][2]),
                   cur, scr, order, i + 1)

\* The counters after the two loops over currentGrid's rows and columns.
tally(cur, scr) ==
    tallyFrom([currentGridAge |-> 0, scratchGridAge |-> 0,
               currentGridCells |-> 0, scratchGridCells |-> 0],
              cur, scr, RowMajor(cur), 1)

isStableStrictlyOver(cur, scr) ==
    LET t == tally(cur, scr)
    IN  /\ t.scratchGridAge > t.scratchGridCells * kMaxAge
        /\ (t.scratchGridAge - t.currentGridAge) = t.currentGridCells

isStableEither(cur, scr) ==
    LET t == tally(cur, scr)
    IN  \/ t.scratchGridAge >= t.scratchGridCells * kMaxAge
        \/ (t.scratchGridAge - t.currentGridAge) = t.currentGridCells

isStableOverCurrent(cur, scr) ==
    LET t == tally(cur, scr)
    IN  /\ t.currentGridAge >= t.scratchGridCells * kMaxAge
        /\ (t.scratchGridAge - t.currentGridAge) = t.currentGridCells

isStable(cur, scr) ==
    LET t == tally(cur, scr)
    IN  /\ t.scratchGridAge >= t.scratchGridCells * kMaxAge
        /\ (t.scratchGridAge - t.currentGridAge) = t.currentGridCells

----------------------------------------------------------------------------
(* The positions the generation engine and the detector index *)

neighborIndexedUnguarded(g, row, col, rowOffset, colOffset) ==
    ~(rowOffset = 0 /\ colOffset = 0)

\* The condition of countNeighbors' if, under which its body indexes
\* currentGrid[row+rowOffset][col+colOffset].
neighborIndexed(g, row, col, rowOffset, colOffset) ==
    /\ inBounds(g, row + rowOffset, col + colOffset)
    /\ ~(rowOffset = 0 /\ colOffset = 0)

\* The positions of currentGrid that countNeighbors(g, row, col) indexes.
countNeighborsIndexes(g, row, col) ==
    {<<row + Offsets[i][1], col + Offsets[i][2]>> :
        i \in {j \in 1..Len(Offsets) :
                  neighborIndexed(g, row, col, Offsets[j][1], Offsets[j][2])}}

\* The positions calculateNextGeneration indexes: currentGrid[row][col] and
\* countNeighbors' positions in cur, scratchGrid[row][col] in scratch.
generationIndexes(g) ==
    LET visited == {RowMajor(g)[i] : i \in 1..Len(RowMajor(g))}
    IN  [cur |-> visited \cup
                 UNION {countNeighborsIndexes(g, p[1], p[2]) : p \in visited},
         scratch |-> visited]

\* The positions isStable indexes: both grids at every row and column of
\* currentGrid.
stableIndexes(cur, scr) ==
    LET visited == {RowMajor(cur)[i] : i \in 1..Len(RowMajor(cur))}
    IN  [cur |-> visited, scr |-> visited]

----------------------------------------------------------------------------
(* LifeDisplay and drawGrid *)

\* The display is the program's output: the model keeps the calls made on it.
NoDisplay == [numRows |-> 0, numCols |-> 0]

\* display.setDimensions(rows, cols)
setDimensions(nRows, nCols) == [numRows |-> nRows, numCols |-> nCols]

\* display.drawCellAt(row, col, age): the call is logged.
drawCellAt(d, row, col, age) ==
    [display |-> d.display, log |-> Append(d.log, <<row, col, age>>)]

\* What a sequence of drawCellAt calls leaves on the cells it names.
RECURSIVE shownAfter(_, _)
shownAfter(log, i) ==
    IF i = 0 THEN <<>>
    ELSE (<<log[i][1], log[i][2]>> :> log[i][3]) @@ shownAfter(log, i - 1)

RECURSIVE drawFrom(_, _, _, _)
drawFrom(d, g, order, i) ==
    IF i > Len(order) THEN d
    ELSE drawFrom(drawCellAt(d, order[i][1], order[i][2],
                             Get(g, order[i][1], order[i][2])),
                  g, order, i + 1)

\* drawGrid: the display and the calls made, after the two loops.
drawGrid(g, disp) == drawFrom([display |-> disp, log |-> <<>>], g, RowMajor(g), 1)

----------------------------------------------------------------------------
(* The grids the model draws its inputs from *)

Dims(maxCells) ==
    {d \in (0..MaxDim) \X (0..MaxDim) : d[1] * d[2] <= maxCells}

GridsOf(nRows, nCols, ages) ==
    {[numRows |-> nRows, numCols |-> nCols, elems |-> e] :
        e \in [Coords(nRows, nCols) -> ages]}

Grids(maxCells, ages) ==
    UNION {GridsOf(d[1], d[2], ages) : d \in Dims(maxCells)}

----------------------------------------------------------------------------
(* readInGrid *)

\* A file is the sequence of its lines and a line the sequence of its
\* characters, as readEntireFile returns them.
Digits == <<"0", "1", "2", "3", "4", "5", "6", "7", "8", "9">>

isDigit(ch) == \E i \in 1..Len(Digits) : Digits[i] = ch

digitValue(ch) == (CHOOSE i \in 1..Len(Digits) : Digits[i] = ch) - 1

RECURSIVE digitsValue(_, _)
digitsValue(str, n) ==
    IF n = 0 THEN 0 ELSE 10 * digitsValue(str, n - 1) + digitValue(str[n])

\* strlib's stringToInteger reads a decimal integer with an optional sign
\* and raises an error on anything else.
legalInteger(str) ==
    LET body == IF str # <<>> /\ str[1] = "-" THEN Tail(str) ELSE str
    IN  body # <<>> /\ \A i \in 1..Len(body) : isDigit(body[i])

stringToInteger(str) ==
    IF str[1] = "-" THEN 0 - digitsValue(Tail(str), Len(str) - 1)
    ELSE digitsValue(str, Len(str))

hasComment(line) == \E i \in 1..Len(line) : line[i] = commentMark

\* The lines left by the loop that removes the lines holding a "#".
removeComments(lines) == SelectSeq(lines, LAMBDA line : ~hasComment(line))

cellCode(ch) == IF ch = emptyCell THEN 0 ELSE 1

\* The two loops over the lines after the dimensions and over their
\* characters. r is [failed, grid]; Grid's operator[] raises an error for an
\* index outside the grid, which ends the program.
RECURSIVE readCells(_, _, _, _)
readCells(r, kept, numLines, numChars) ==
    IF r.failed \/ numLines > Len(kept) - 1 THEN r
    ELSE IF numChars > Len(kept[numLines + 1]) - 1
         THEN readCells(r, kept, numLines + 1, 0)
    ELSE IF ~inBounds(r.grid, numLines - (fileColDimension + 1), numChars)
         THEN [r EXCEPT !.failed = TRUE]
    ELSE readCells([r EXCEPT !.grid = Set(@, numLines - (fileColDimension + 1),
                                          numChars,
                                          cellCode(kept[numLines + 1][numChars + 1]))],
                   kept, numLines, numChars + 1)

\* readInGrid: failed when the program ends with an error (a missing or
\* illegal dimension line, a negative dimension, a cell outside the grid).
readInGrid(lines) ==
    LET kept == removeComments(lines)
        dimsRead == /\ Len(kept) > fileColDimension
                    /\ legalInteger(kept[fileRowDimension + 1])
                    /\ legalInteger(kept[fileColDimension + 1])
                    /\ stringToInteger(kept[fileRowDimension + 1]) >= 0
                    /\ stringToInteger(kept[fileColDimension + 1]) >= 0
    IN  IF ~dimsRead THEN [failed |-> TRUE, grid |-> NewGrid(0, 0)]
        ELSE readCells([failed |-> FALSE,
                        grid |-> NewGrid(stringToInteger(kept[fileRowDimension + 1]),
                                         stringToInteger(kept[fileColDimension + 1]))],
                       kept, fileColDimension + 1, 0)

\* A colony file of five rows and five columns.
ColonyFile ==
    << <<"#", " ", "c", "o", "l", "o", "n", "y">>,
       <<"5">>,
       <<"5">>,
       <<"-", "X", "-", "X", "-">>,
       <<"X", "-", "X", "-", "X">>,
       <<"X", "X", "-", "X", "-">>,
       <<"-", "-", "-", "-", "X">>,
       <<"-", "-", "X", "X", "-">> >>

\* A file of four rows and five columns with three cells in a row.
BlinkerFile ==
    << <<"4">>,
       <<"5">>,
       <<"-", "-", "-", "-", "-">>,
       <<"-", "-", "X", "X", "X">>,
       <<"-", "-", "-", "-", "-">>,
       <<"-", "-", "-", "-", "-">> >>

\* What initializeGrid returns: a grid of ages 0 and 1. A file gives any
\* dimensions and any such contents; randomizeGrid gives kNumCells live cells on
\* a 40 x 40 grid, which is a grid of the same kind beyond MaxDim.
InitialGrids == Grids(MaxCells, {0, 1}) \cup
                {readInGrid(ColonyFile).grid, readInGrid(BlinkerFile).grid}

\* The ages of the grids the generation engine is handed: dead cells, newborn
\* cells and older cells.
GenAges == {0, 1, MaxInitAge}

\* Ages around the kMaxAge threshold, for the stability detector.
StableAges == {0, 1, kMaxAge - 1, kMaxAge, kMaxAge + 1}

EmptyGrid == NewGrid(0, 0)

\* What getNextEvent(MOUSE_EVENT) may return besides NULL_EVENT: a click, and
\* MOUSE_PRESSED for the mouse events that are not a click (press, release,
\* move, drag), which the loop treats alike.
MouseEventTypes == {"MOUSE_CLICKED", "MOUSE_PRESSED"}

Lines == {"", "quit", "Quit", "no"}

----------------------------------------------------------------------------
(* The session: runGame, runSimulation, continueGame *)

Init ==
    /\ pc = "initializeGrid"
    /\ currentGrid = EmptyGrid
    /\ scratchGrid = EmptyGrid
    /\ stable = FALSE
    /\ display = NoDisplay
    /\ drawLog = <<>>
    /\ simulationSpeed = 0
    /\ pauseLength = 0
    /\ waited = 0
    /\ events = <<>>
    /\ lineRead = <<>>
    /\ generations = 0
    /\ file = <<>>

\* runGame up to the speed prompt: initializeGrid, setDimensions, drawGrid.
StartRun ==
    /\ pc = "initializeGrid"
    /\ UNCHANGED file
    /\ \E g \in InitialGrids :
         \E drawn \in {drawGrid(g, setDimensions(g.numRows, g.numCols))} :
             /\ currentGrid' = g
             /\ display' = drawn.display
             /\ drawLog' = drawn.log
    /\ scratchGrid' = EmptyGrid
    /\ stable' = FALSE
    /\ simulationSpeed' = 0
    /\ generations' = 0
    /\ waited' = 0
    /\ lineRead' = <<>>
    /\ pc' = "setSimulationSpeed"
    /\ UNCHANGED <<pauseLength, events>>

\* setSimulationSpeed: the switch assigns pauseLength in the cases 1, 2 and 3
\* and has no case 4, where pauseLength stays unassigned (the loop never reads
\* it in mode 4).
pauseLengthFor(speed, unassigned) ==
    CASE speed = 1 -> msToPauseMin
      [] speed = 2 -> msToPauseMid
      [] speed = 3 -> msToPauseMax
      [] OTHER -> unassigned

SetSpeed ==
    /\ pc = "setSimulationSpeed"
    /\ UNCHANGED file
    /\ \E choice \in simSpeedMin..simSpeedManual :
         /\ simulationSpeed' = choice
         /\ pauseLength' = pauseLengthFor(choice, pauseLength)
    /\ drawLog' = <<>>
    /\ lineRead' = <<>>
    /\ pc' = "loop"
    /\ UNCHANGED <<currentGrid, scratchGrid, stable, display, waited, events,
                   generations>>

advanceGridDrawFirst(cur, disp, scr) ==
    LET drawn == drawGrid(cur, disp)
    IN  [currentGrid |-> scr, display |-> drawn.display, log |-> drawn.log]

\* advanceGrid: copy the candidate into currentGrid, then drawGrid.
advanceGrid(cur, disp, scr) ==
    LET drawn == drawGrid(scr, disp)
    IN  [currentGrid |-> scr, display |-> drawn.display, log |-> drawn.log]

advanceBeforeCheck(g, disp) ==
    LET pass == nextGenerationPass(g)
        adv == advanceGrid(pass.cur, disp, pass.scratch)
    IN  [scratchGrid |-> pass.scratch,
         stable |-> isStable(pass.cur, pass.scratch),
         currentGrid |-> adv.currentGrid,
         display |-> adv.display,
         log |-> adv.log]

\* The variant that commits the generation after the candidate.
iterationSkipsGeneration(g, disp) ==
    LET pass == nextGenerationPass(g)
        st == isStable(pass.cur, pass.scratch)
        adv == advanceGrid(pass.cur, disp, calculateNextGeneration(pass.scratch))
    IN  [scratchGrid |-> pass.scratch,
         stable |-> st,
         currentGrid |-> IF st THEN pass.cur ELSE adv.currentGrid,
         display |-> IF st THEN disp ELSE adv.display,
         log |-> IF st THEN <<>> ELSE adv.log]

\* The loop body up to the mode branch: candidate, isStable, advanceGrid.
iteration(g, disp) ==
    LET pass == nextGenerationPass(g)
        st == isStable(pass.cur, pass.scratch)
        adv == advanceGrid(pass.cur, disp, pass.scratch)
    IN  [scratchGrid |-> pass.scratch,
         stable |-> st,
         currentGrid |-> IF st THEN pass.cur ELSE adv.currentGrid,
         display |-> IF st THEN disp ELSE adv.display,
         log |-> IF st THEN <<>> ELSE adv.log]

Iterate ==
    /\ pc = "loop"
    /\ UNCHANGED file
    /\ generations < MaxGens
    /\ \E it \in {iteration(currentGrid, display)} :
           /\ scratchGrid' = it.scratchGrid
           /\ stable' = it.stable
           /\ currentGrid' = it.currentGrid
           /\ display' = it.display
           /\ drawLog' = it.log
           /\ generations' = IF it.stable THEN generations ELSE generations + 1
           /\ pc' = IF it.stable THEN "continueGame" ELSE "poll"
    /\ lineRead' = <<>>
    /\ UNCHANGED <<simulationSpeed, pauseLength, waited, events>>

\* getNextEvent(MOUSE_EVENT): the oldest queued mouse event, or NULL_EVENT.
getNextEvent(queue) ==
    IF queue = <<>> THEN [type |-> "NULL_EVENT", rest |-> <<>>]
    ELSE [type |-> Head(queue), rest |-> Tail(queue)]

mouseBranchElsePause(type, pause) ==
    CASE type = "MOUSE_CLICKED" -> [stop |-> TRUE, waited |-> 0]
      [] OTHER -> [stop |-> FALSE, waited |-> pause]

\* The branch on me.getEventType(): break, pause(pauseLength), or neither.
mouseBranch(type, pause) ==
    CASE type = "MOUSE_CLICKED" -> [stop |-> TRUE, waited |-> 0]
      [] type = "NULL_EVENT" -> [stop |-> FALSE, waited |-> pause]
      [] OTHER -> [stop |-> FALSE, waited |-> 0]

\* Modes 1-3 after advanceGrid.
PollMouse ==
    /\ pc = "poll"
    /\ UNCHANGED file
    /\ simulationSpeed # simSpeedManual
    /\ LET me == getNextEvent(events)
           br == mouseBranch(me.type, pauseLength)
       IN  /\ events' = me.rest
           /\ waited' = br.waited
           /\ pc' = IF br.stop THEN "continueGame" ELSE "loop"
    /\ drawLog' = <<>>
    /\ lineRead' = <<>>
    /\ UNCHANGED <<currentGrid, scratchGrid, stable, display, simulationSpeed,
                   pauseLength, generations>>

lineStopsOnAny(line) == line # ""

\* getLine(...) == stopWord
lineStops(line) == line = stopWord

\* Mode 4 after advanceGrid.
PollLine ==
    /\ pc = "poll"
    /\ UNCHANGED file
    /\ simulationSpeed = simSpeedManual
    /\ \E line \in Lines :
         /\ lineRead' = <<line>>
         /\ pc' = IF lineStops(line) THEN "continueGame" ELSE "loop"
    /\ drawLog' = <<>>
    /\ waited' = 0
    /\ UNCHANGED <<currentGrid, scratchGrid, stable, display, simulationSpeed,
                   pauseLength, events, generations>>

\* The variant that calls runSimulation again where continueGame calls runGame.
ContinueGameResumes ==
    /\ pc = "continueGame"
    /\ UNCHANGED file
    /\ \E answer \in {userAffirmative, userNegative} :
         IF answer = userAffirmative
         THEN /\ pc' = "setSimulationSpeed"
              /\ UNCHANGED <<display, events, currentGrid>>
         ELSE /\ pc' = "exit"
              /\ display' = NoDisplay
              /\ events' = <<>>
              /\ currentGrid' = EmptyGrid
    /\ scratchGrid' = EmptyGrid
    /\ stable' = FALSE
    /\ simulationSpeed' = 0
    /\ pauseLength' = 0
    /\ waited' = 0
    /\ generations' = 0
    /\ drawLog' = <<>>
    /\ lineRead' = <<>>

\* continueGame: newGetLine returns "yes" or "no". On "yes" runGame is entered
\* again, with locals of its own; on "no" the calls return, main destroys the
\* display and the process ends, its state with it.
ContinueGame ==
    /\ pc = "continueGame"
    /\ UNCHANGED file
    /\ \E answer \in {userAffirmative, userNegative} :
         IF answer = userAffirmative
         THEN /\ pc' = "initializeGrid"
              /\ UNCHANGED <<display, events>>
         ELSE /\ pc' = "exit"
              /\ display' = NoDisplay
              /\ events' = <<>>
    /\ currentGrid' = EmptyGrid
    /\ scratchGrid' = EmptyGrid
    /\ stable' = FALSE
    /\ simulationSpeed' = 0
    /\ pauseLength' = 0
    /\ waited' = 0
    /\ generations' = 0
    /\ drawLog' = <<>>
    /\ lineRead' = <<>>

\* The user acts on the graphics window: the event is queued. An event stays
\* queued until a poll takes it, so the model lets it arrive while the program
\* is at a poll.
MouseInput ==
    /\ pc = "poll"
    /\ UNCHANGED file
    /\ Len(events) < MaxEvents
    /\ \E type \in MouseEventTypes : events' = Append(events, type)
    /\ UNCHANGED <<pc, currentGrid, scratchGrid, stable, display, drawLog,
                   simulationSpeed, pauseLength, waited, lineRead, generations>>

Next ==
    \/ StartRun
    \/ SetSpeed
    \/ Iterate
    \/ PollMouse
    \/ PollLine
    \/ ContinueGame
    \/ MouseInput

Spec == Init /\ [][Next]_vars

----------------------------------------------------------------------------
(* The generation engine applied to any grid *)

InitGen ==
    /\ pc = "calculateNextGeneration"
    /\ \E d \in Dims(MaxCells) : currentGrid \in GridsOf(d[1], d[2], GenAges)
    /\ scratchGrid = EmptyGrid
    /\ stable = FALSE
    /\ display = NoDisplay
    /\ drawLog = <<>>
    /\ simulationSpeed = 0
    /\ pauseLength = 0
    /\ waited = 0
    /\ events = <<>>
    /\ lineRead = <<>>
    /\ generations = 0
    /\ file = <<>>

GenApply ==
    /\ pc = "calculateNextGeneration"
    /\ UNCHANGED file
    /\ LET pass == nextGenerationPass(currentGrid)
       IN  /\ currentGrid' = pass.cur
           /\ scratchGrid' = pass.scratch
    /\ pc' = "generationDone"
    /\ UNCHANGED <<stable, display, drawLog, simulationSpeed, pauseLength,
                   waited, events, lineRead, generations>>

NextGen == GenApply

SpecGen == InitGen /\ [][NextGen]_vars

----------------------------------------------------------------------------
(* readInGrid applied to any file *)

\* The lines a file is made of: comment lines, dimension lines, an empty line
\* and row lines of one, two and three characters.
FileLines ==
    { <<"#">>, <<"X", "#">>, <<"1">>, <<"2">>, <<>>,
      <<"-">>, <<"X", "-">>, <<"-", "X", "X">> }

FilesOfLength(n) == [1..n -> FileLines]

InitRead ==
    /\ pc = "readInGrid"
    /\ \E n \in 0..MaxFileLines : file \in FilesOfLength(n)
    /\ currentGrid = EmptyGrid
    /\ scratchGrid = EmptyGrid
    /\ stable = FALSE
    /\ display = NoDisplay
    /\ drawLog = <<>>
    /\ simulationSpeed = 0
    /\ pauseLength = 0
    /\ waited = 0
    /\ events = <<>>
    /\ lineRead = <<>>
    /\ generations = 0

\* readInGrid fills runGame's currentGrid, or ends the program with an error.
ReadApply ==
    /\ pc = "readInGrid"
    /\ \E r \in {readInGrid(file)} :
         /\ currentGrid' = r.grid
         /\ pc' = IF r.failed THEN "error" ELSE "readDone"
    /\ UNCHANGED <<scratchGrid, stable, display, drawLog, simulationSpeed,
                   pauseLength, waited, events, lineRead, generations, file>>

NextRead == ReadApply

SpecRead == InitRead /\ [][NextRead]_vars

----------------------------------------------------------------------------
(* The stability detector applied to any pair of equally sized grids *)

InitStable ==
    /\ pc = "isStable"
    /\ \E d \in Dims(MaxStableCells) :
         /\ currentGrid \in GridsOf(d[1], d[2], StableAges)
         /\ scratchGrid \in GridsOf(d[1], d[2], StableAges)
    /\ stable = FALSE
    /\ display = NoDisplay
    /\ drawLog = <<>>
    /\ simulationSpeed = 0
    /\ pauseLength = 0
    /\ waited = 0
    /\ events = <<>>
    /\ lineRead = <<>>
    /\ generations = 0
    /\ file = <<>>

StableApply ==
    /\ pc = "isStable"
    /\ UNCHANGED file
    /\ stable' = isStable(currentGrid, scratchGrid)
    /\ pc' = "stableDone"
    /\ UNCHANGED <<currentGrid, scratchGrid, display, drawLog, simulationSpeed,
                   pauseLength, waited, events, lineRead, generations>>

NextStable == StableApply

SpecStable == InitStable /\ [][NextStable]_vars

----------------------------------------------------------------------------
(* Properties of the generation engine, under SpecGen *)

Cells(g) == DOMAIN g.elems

\* The positions around (row, col) that lie in the grid and hold a live cell.
LiveNeighbours(g, row, col) ==
    {d \in {-1, 0, 1} \X {-1, 0, 1} :
        /\ d # <<0, 0>>
        /\ <<row + d[1], col + d[2]>> \in Cells(g)
        /\ g.elems[<<row + d[1], col + d[2]>>] > 0}

GenDone == pc = "generationDone"

\* C1: a cell with exactly 3 live neighbours has age = prior age + 1 in the
\* next generation (a dead cell becomes age 1, a live cell of age a becomes a+1).
C1_ThreeNeighboursAges ==
    GenDone =>
        \A p \in Cells(currentGrid) :
            countNeighbors(currentGrid, p[1], p[2]) = 3
                => scratchGrid.elems[p] = currentGrid.elems[p] + 1

C1_Witness ==
    /\ GenDone
    /\ \E p, q \in Cells(currentGrid) :
         /\ countNeighbors(currentGrid, p[1], p[2]) = 3
         /\ currentGrid.elems[p] = 0 /\ scratchGrid.elems[p] = 1
         /\ countNeighbors(currentGrid, q[1], q[2]) = 3
         /\ currentGrid.elems[q] > 1
         /\ scratchGrid.elems[q] = currentGrid.elems[q] + 1

\* C2: a cell with exactly 2 live neighbours keeps its status: a dead cell
\* stays at age 0, a live cell of age a > 0 has age a+1.
C2_TwoNeighboursKeepStatus ==
    GenDone =>
        \A p \in Cells(currentGrid) :
            countNeighbors(currentGrid, p[1], p[2]) = 2
                => scratchGrid.elems[p] =
                      (IF currentGrid.elems[p] > 0
                       THEN currentGrid.elems[p] + 1 ELSE 0)

C2_Witness ==
    /\ GenDone
    /\ \E p, q \in Cells(currentGrid) :
         /\ countNeighbors(currentGrid, p[1], p[2]) = 2
         /\ currentGrid.elems[p] = 0 /\ scratchGrid.elems[p] = 0
         /\ countNeighbors(currentGrid, q[1], q[2]) = 2
         /\ currentGrid.elems[q] > 0
         /\ scratchGrid.elems[q] = currentGrid.elems[q] + 1

\* C3: a cell with 0, 1, 4, 5, 6, 7 or 8 live neighbours has age 0 in the
\* next generation, whatever its prior age.
C3_OtherCountsDie ==
    GenDone =>
        \A p \in Cells(currentGrid) :
            countNeighbors(currentGrid, p[1], p[2]) \in {0, 1, 4, 5, 6, 7, 8}
                => scratchGrid.elems[p] = 0

C3_Witness ==
    /\ GenDone
    /\ \E p, q \in Cells(currentGrid) :
         /\ countNeighbors(currentGrid, p[1], p[2]) >= 4
         /\ currentGrid.elems[p] > 0 /\ scratchGrid.elems[p] = 0
         /\ countNeighbors(currentGrid, q[1], q[2]) <= 1
         /\ currentGrid.elems[q] > 0 /\ scratchGrid.elems[q] = 0

\* C4: countNeighbors of an in-bounds cell is the number of the 8 surrounding
\* positions that are inside the grid and hold an age > 0: it is in 0..8, the
\* cell itself is not counted and there is no wraparound.
C4_CountNeighborsExact ==
    \A p \in Cells(currentGrid) :
        /\ countNeighbors(currentGrid, p[1], p[2])
              = Cardinality(LiveNeighbours(currentGrid, p[1], p[2]))
        /\ countNeighbors(currentGrid, p[1], p[2]) \in 0..8

\* Every cell alive on a 3x3 grid: the centre counts 8 (not itself), a corner 3
\* and an edge cell 5 (nothing beyond the border).
C4_Witness ==
    /\ currentGrid.numRows = 3 /\ currentGrid.numCols = 3
    /\ \A p \in Cells(currentGrid) : currentGrid.elems[p] > 0
    /\ countNeighbors(currentGrid, 1, 1) = 8
    /\ countNeighbors(currentGrid, 0, 0) = 3
    /\ countNeighbors(currentGrid, 0, 1) = 5

\* Other orders to visit the cells in: backwards, column by column, and every
\* permutation on a grid of at most MaxPermCells cells.
IndexPermutations(n) ==
    {f \in [1..n -> 1..n] : \A i, j \in 1..n : i # j => f[i] # f[j]}

VisitOrders(g) ==
    LET n == g.numRows * g.numCols
        cells == RowMajor(g)
    IN  {[i \in 1..n |-> cells[n + 1 - i]],
         [i \in 1..n |-> <<(i - 1) % g.numRows, (i - 1) \div g.numRows>>]}
        \cup (IF n <= MaxPermCells
              THEN {[i \in 1..n |-> cells[f[i]]] : f \in IndexPermutations(n)}
              ELSE {})

\* C5: calculateNextGeneration is a synchronous update: each cell of the result
\* is a function of the input grid alone, the input grid is unchanged by the
\* call, and visiting the cells in another order gives the same result.
C5_SynchronousUpdate ==
    [][pc = "calculateNextGeneration" =>
          /\ currentGrid' = currentGrid
          /\ \A p \in Cells(currentGrid) :
                scratchGrid'.elems[p] =
                    nextAge(currentGrid.elems[p],
                            Cardinality(LiveNeighbours(currentGrid, p[1], p[2])))
          /\ \A order \in VisitOrders(currentGrid) :
                fillInOrder(currentGrid, order).scratch = scratchGrid'
      ]_vars

\* A cell that changed between dead and alive lies next to a cell that is alive
\* in the result: an update in place would have counted the changed value.
C5_Witness ==
    /\ GenDone
    /\ \E p, q \in Cells(currentGrid) :
         /\ p # q
         /\ p[1] - q[1] \in {-1, 0, 1} /\ p[2] - q[2] \in {-1, 0, 1}
         /\ (currentGrid.elems[p] > 0) # (scratchGrid.elems[p] > 0)
         /\ scratchGrid.elems[q] > 0

----------------------------------------------------------------------------
(* Properties of the stability detector, under SpecStable *)

RECURSIVE SumOver(_, _)
SumOver(f, S) ==
    IF S = {} THEN 0
    ELSE LET x == CHOOSE y \in S : TRUE
         IN  f[x] + SumOver(f, S \ {x})

SummedAge(g) == SumOver(g.elems, Cells(g))

LiveCells(g) == {p \in Cells(g) : g.elems[p] > 0}

ConditionA(next) == SummedAge(next) >= Cardinality(LiveCells(next)) * kMaxAge

ConditionB(cur, next) ==
    SummedAge(next) - SummedAge(cur) = Cardinality(LiveCells(cur))

\* C6: isStable(current, next) is true exactly when (a) the summed age of next
\* is at least kMaxAge times its number of live cells and (b) the summed age
\* rose by exactly the number of live cells of current.
C6_IsStableIffBoth ==
    pc = "stableDone" =>
        (stable <=> (ConditionA(scratchGrid) /\ ConditionB(currentGrid, scratchGrid)))

\* Stable with live cells at the threshold.
C6_Witness ==
    /\ pc = "stableDone"
    /\ stable
    /\ LiveCells(scratchGrid) # {}
    /\ ConditionA(scratchGrid) /\ ConditionB(currentGrid, scratchGrid)

----------------------------------------------------------------------------
(* Properties of the run loop, under Spec *)

\* A step of the loop body: the program leaves the loop head.
IterationStep == pc = "loop" /\ pc' # "loop"

Candidate == calculateNextGeneration(currentGrid)

\* C7: an iteration in which isStable(current, candidate) is true stops the
\* run and neither commits nor draws the candidate: the current grid and the
\* display are as before and no drawCellAt call is made.
C7_StableStopsUncommitted ==
    [][(IterationStep /\ isStable(currentGrid, Candidate)) =>
          /\ pc' = "continueGame"
          /\ currentGrid' = currentGrid
          /\ display' = display
          /\ drawLog' = <<>>
          /\ generations' = generations
      ]_vars

\* The run stopped as stable with live cells: the older candidate was dropped.
C7_Witness ==
    /\ pc = "continueGame"
    /\ stable
    /\ generations > 0
    /\ LiveCells(currentGrid) # {}
    /\ scratchGrid # currentGrid
    /\ drawLog = <<>>

\* The calls of the log name each coordinate of the grid exactly once, each
\* with the age the grid holds there, and nothing else.
DrawnOncePerCell(log, g) ==
    /\ Len(log) = Cardinality(Cells(g))
    /\ {<<log[i][1], log[i][2]>> : i \in 1..Len(log)} = Cells(g)
    /\ \A i \in 1..Len(log) : log[i][3] = g.elems[<<log[i][1], log[i][2]>>]

Shows(log, disp, g) ==
    /\ disp.numRows = g.numRows /\ disp.numCols = g.numCols
    /\ DrawnOncePerCell(log, g)
    /\ shownAfter(log, Len(log)) = g.elems

\* C8: an iteration in which isStable is false makes the candidate the current
\* grid and calls drawCellAt exactly once per coordinate with the new age,
\* before any stop event is polled; so wherever the program waits for input
\* during a run (after the initial draw too) the display shows the current grid.
C8_CommitDrawsEveryCellOnce ==
    /\ [][IterationStep =>
             LET candidate == Candidate
             IN  ~isStable(currentGrid, candidate) =>
                    /\ currentGrid' = candidate
                    /\ DrawnOncePerCell(drawLog', currentGrid')
                    /\ generations' = generations + 1
                    /\ pc' = "poll"
                    /\ events' = events /\ lineRead' = <<>>
         ]_vars
    /\ [](pc \in {"setSimulationSpeed", "poll"} => Shows(drawLog, display, currentGrid))

\* A committed generation that differs from the one before, drawn in full.
C8_Witness ==
    /\ pc = "poll"
    /\ generations >= 2
    /\ currentGrid.numRows * currentGrid.numCols >= 6
    /\ LiveCells(currentGrid) # {}
    /\ Len(drawLog) = currentGrid.numRows * currentGrid.numCols
    /\ \E p \in Cells(currentGrid) : currentGrid.elems[p] >= 2

Manual == simulationSpeed = simSpeedManual

\* C9: in mode 4, after a committed generation the run stops exactly when the
\* line entered equals "quit"; any other line (the empty one too) leads to the
\* next generation; pointer events neither stop nor advance the run.
C9_ManualStopsOnQuitOnly ==
    [][(Manual /\ pc \in {"loop", "poll"}) =>
          /\ (events' # events) =>
                 UNCHANGED <<pc, currentGrid, scratchGrid, generations, drawLog>>
          /\ (pc = "poll" /\ pc' # "poll") =>
                 /\ Len(lineRead') = 1
                 /\ pc' = (IF lineRead'[1] = "quit" THEN "continueGame" ELSE "loop")
                 /\ UNCHANGED <<currentGrid, generations, events>>
      ]_vars

\* Stopped by "quit" after at least one other line went on to a further
\* generation, with a pointer event left in the queue.
C9_Witness ==
    /\ Manual
    /\ pc = "continueGame"
    /\ lineRead = <<"quit">>
    /\ generations >= 2
    /\ events # <<>>

Automatic == simulationSpeed \in {1, 2, 3}

PacingDelay ==
    CASE simulationSpeed = 1 -> 1
      [] simulationSpeed = 2 -> 100
      [] simulationSpeed = 3 -> 500

PolledEvent == IF events = <<>> THEN "NULL_EVENT" ELSE Head(events)

PollStep == Automatic /\ pc = "poll" /\ pc' # "poll"

----------------------------------------------------------------------------
(* The verdict of the stability detector *)

\* The run was stopped by isStable: the current grid is the one isStable was
\* given and scratchGrid its candidate.
DeclaredStable == pc = "continueGame" /\ stable

SameLiveCells(cur, next) == LiveCells(cur) = LiveCells(next)

AgedByOne(cur, next) ==
    \A p \in LiveCells(cur) : next.elems[p] = cur.elems[p] + 1

\* C11: whenever isStable(g, calculateNextGeneration(g)) is true, no cell was
\* born and no cell died between the two generations: both grids have the
\* same set of live coordinates and every live cell's age rose by exactly 1.
C11_StableMeansUnchanged ==
    DeclaredStable =>
        /\ scratchGrid = calculateNextGeneration(currentGrid)
        /\ SameLiveCells(currentGrid, scratchGrid)
        /\ AgedByOne(currentGrid, scratchGrid)

\* C12: whenever the run loop declares a grid stable, in a run started from a
\* grid of ages 0 and 1, every live cell of the candidate generation has age
\* >= kMaxAge.
C12_StableCellsOld ==
    DeclaredStable =>
        \A p \in LiveCells(scratchGrid) : scratchGrid.elems[p] >= kMaxAge

----------------------------------------------------------------------------
(* Invariants of a run *)

AllZero(g) == \A p \in Cells(g) : g.elems[p] = 0

InRun == pc \in {"setSimulationSpeed", "loop", "poll", "continueGame"}

\* C13: the next generation of an all-zero grid is an all-zero grid of the
\* same size and isStable declares the pair stable; an iteration on an
\* all-zero grid stops the run without committing, so a run started on an
\* all-zero grid stops in its first iteration with zero generations committed.
C13_AllZeroStopsAtOnce ==
    [][(pc = "loop" /\ pc' # "loop" /\ AllZero(currentGrid)) =>
          /\ calculateNextGeneration(currentGrid) = currentGrid
          /\ isStable(currentGrid, currentGrid)
          /\ scratchGrid' = currentGrid
          /\ stable'
          /\ pc' = "continueGame"
          /\ UNCHANGED <<currentGrid, generations>>
      ]_vars

\* A run started on an all-zero grid that has cells was stopped as stable.
C13_Witness ==
    /\ DeclaredStable
    /\ generations = 0
    /\ Cells(currentGrid) # {}
    /\ AllZero(currentGrid)
    /\ AllZero(scratchGrid)

SameDimensions(g, h) ==
    /\ g.numRows = h.numRows
    /\ g.numCols = h.numCols
    /\ Cells(g) = Cells(h)

\* C14: calculateNextGeneration returns a grid with the row and column counts
\* of its input, and no step of a run changes the dimensions of the current
\* grid: after any number of committed generations it has the R and C the run
\* started with (those the display was given by setDimensions).
C14_DimensionsKept ==
    [][(InRun /\ pc # "continueGame") =>
          /\ SameDimensions(currentGrid', currentGrid)
          /\ currentGrid'.numRows = display'.numRows
          /\ currentGrid'.numCols = display'.numCols
          /\ Cells(currentGrid') = Coords(display'.numRows, display'.numCols)
          /\ (pc = "loop" => SameDimensions(scratchGrid', currentGrid))
      ]_vars

\* Generations were committed on a grid that is not square.
C14_Witness ==
    /\ pc = "poll"
    /\ generations >= 2
    /\ currentGrid.numRows # currentGrid.numCols
    /\ LiveCells(currentGrid) # {}

AgesWithin(g, most) ==
    \A p \in Cells(g) : g.elems[p] >= 0 /\ g.elems[p] <= most

\* C15 as claimed: in every state of a run started from a grid of ages 0 and
\* 1, every cell of the current grid and of the candidate grid has age >= 0
\* and at most 1 + the number of generations committed so far.
C15_AgesWithinCommitted ==
    InRun =>
        /\ AgesWithin(currentGrid, 1 + generations)
        /\ AgesWithin(scratchGrid, 1 + generations)
        /\ (pc = "loop" => AgesWithin(Candidate, 1 + generations))

\* C15 as amended: every cell of the current grid and of every candidate grid
\* has age >= 0; a cell of the current grid has age at most 1 + the number of
\* generations committed so far, and a cell of a candidate grid, which is one
\* generation ahead, at most 2 + that number.
C15_AgesWithinGeneration ==
    InRun =>
        /\ AgesWithin(currentGrid, 1 + generations)
        /\ AgesWithin(scratchGrid, 2 + generations)
        /\ (pc = "loop" => AgesWithin(Candidate, 2 + generations))

\* A cell as old as the bound allows, in the current grid and in a candidate
\* that was not committed.
C15_Witness ==
    /\ DeclaredStable
    /\ generations >= 2
    /\ \E p \in Cells(currentGrid) :
           /\ currentGrid.elems[p] = 1 + generations
           /\ scratchGrid.elems[p] = 2 + generations

----------------------------------------------------------------------------
(* After a run has stopped *)

\* C16: once a run is stopped (pc = "continueGame", by isStable, a click or
\* the stop word) its grid is not advanced or drawn again: the next step
\* makes no drawCellAt call and either ends the session (answer "no") or
\* enters runGame again (answer "yes"). runGame starts from a newly
\* constructed Grid, in which nothing of the stopped run's grid is left, fills
\* it with a grid initializeGrid returns (ages 0 and 1), gives its dimensions
\* to the display, draws every cell once and asks for the speed before the
\* first iteration.
C16_StoppedRunIsOver ==
    [][/\ (pc = "continueGame") =>
             (/\ pc' \in {"exit", "initializeGrid"}
              /\ drawLog' = <<>>
              /\ generations' = 0)
       /\ (pc = "exit") => FALSE
       /\ (pc' = "initializeGrid") =>
             (currentGrid' = EmptyGrid /\ scratchGrid' = EmptyGrid)
       /\ (pc = "initializeGrid") =>
             (/\ pc' = "setSimulationSpeed"
              /\ currentGrid' \in InitialGrids
              /\ display' = setDimensions(currentGrid'.numRows,
                                          currentGrid'.numCols)
              /\ DrawnOncePerCell(drawLog', currentGrid')
              /\ generations' = 0
              /\ simulationSpeed' = 0)
       /\ (pc = "setSimulationSpeed") =>
             (/\ pc' = "loop"
              /\ simulationSpeed' \in simSpeedMin..simSpeedManual
              /\ UNCHANGED <<currentGrid, display, generations>>)
       /\ (pc' = "loop") => (pc \in {"setSimulationSpeed", "poll"})
      ]_vars

\* A new run was started after a stopped one: the mouse event queued during
\* the stopped run is still in the window's queue.
C16_Witness ==
    /\ pc = "setSimulationSpeed"
    /\ events # <<>>
    /\ LiveCells(currentGrid) # {}

----------------------------------------------------------------------------
(* Grid indexing *)

\* C17: no out-of-bounds grid access occurs in the run loop, for every grid
\* size (1 x N, N x 1 and zero-sized grids included) and every cell:
\* countNeighbors indexes a position only where inBounds is true, and
\* calculateNextGeneration and isStable index the current grid and the
\* candidate only at coordinates in [0,R) x [0,C).
C17_IndexesInBounds ==
    pc = "loop" =>
        LET candidate == Candidate
            gen == generationIndexes(currentGrid)
            det == stableIndexes(currentGrid, candidate)
        IN  /\ \A p \in Cells(currentGrid) :
                   \A q \in countNeighborsIndexes(currentGrid, p[1], p[2]) :
                       inBounds(currentGrid, q[1], q[2])
            /\ gen.cur \subseteq Coords(currentGrid.numRows, currentGrid.numCols)
            /\ gen.cur \subseteq Cells(currentGrid)
            /\ gen.scratch \subseteq Cells(candidate)
            /\ det.cur \subseteq Cells(currentGrid)
            /\ det.scr \subseteq Cells(candidate)

\* The loop iterates again on a grid of one row that still has a live cell.
C17_Witness ==
    /\ pc = "loop"
    /\ generations >= 1
    /\ currentGrid.numRows = 1
    /\ currentGrid.numCols >= 3
    /\ LiveCells(currentGrid) # {}

----------------------------------------------------------------------------
(* Reading a grid file *)

\* The lines of a file that hold no "#".
DataLines(lines) ==
    SelectSeq(lines, LAMBDA line : \A i \in 1..Len(line) : line[i] # "#")

\* The file has its two dimension lines, each a decimal number.
HasDimensions(lines) ==
    /\ Len(DataLines(lines)) >= 2
    /\ \A k \in 1..2 :
          /\ DataLines(lines)[k] # <<>>
          /\ \A i \in 1..Len(DataLines(lines)[k]) : isDigit(DataLines(lines)[k][i])

\* The R x C grid a file describes: cell (r, c) is 0 when character c of row
\* line r is "-", 1 when it is another character, 0 when there is no such
\* character.
DescribedGrid(lines) ==
    LET data == DataLines(lines)
        R == stringToInteger(data[1])
        C == stringToInteger(data[2])
    IN  [numRows |-> R, numCols |-> C,
         elems |-> [p \in Coords(R, C) |->
                       IF p[1] + 3 <= Len(data) /\ p[2] + 1 <= Len(data[p[1] + 3])
                       THEN (IF data[p[1] + 3][p[2] + 1] = "-" THEN 0 ELSE 1)
                       ELSE 0]]

\* C18: readInGrid, after every line containing "#" is removed, takes R from
\* the first remaining line and C from the second, and for every later line r
\* and character index c gives cell (r, c) age 0 when the character is "-"
\* and age 1 otherwise; cells not written keep age 0, and the result is an
\* R x C grid with all ages in {0, 1}.
C18_ReadGivesDescribedGrid ==
    (pc \in {"readDone", "error"} /\ HasDimensions(file)) =>
        /\ pc = "readDone"
        /\ currentGrid = DescribedGrid(file)
        /\ \A p \in Cells(currentGrid) : currentGrid.elems[p] \in {0, 1}

----------------------------------------------------------------------------
(* Runs on given grids *)

FirstIteration == pc = "loop" /\ pc' # "loop" /\ generations = 0

\* The grid has one live cell, of age 1, and so no cell with a live neighbour
\* but the dead cells around it.
SingleCell(g) ==
    \E p \in Cells(g) : LiveCells(g) = {p} /\ g.elems[p] = 1

\* C19: a run started on a grid with a single live cell of age 1 (the 3 x 3
\* grid with only (1,1) alive among them) is not declared stable in its first
\* iteration, which commits the all-zero candidate as generation 1; with no
\* user stop in between, its second iteration compares the all-zero grid with
\* its all-zero candidate, declares it stable and commits nothing more.
C19_SingleCellDiesThenStable ==
    [][/\ (FirstIteration /\ SingleCell(currentGrid)) =>
             (/\ ~stable'
              /\ pc' = "poll"
              /\ generations' = 1
              /\ SameDimensions(currentGrid', currentGrid)
              /\ AllZero(scratchGrid')
              /\ currentGrid' = scratchGrid'
              /\ iteration(currentGrid', display').stable
              /\ iteration(currentGrid', display').currentGrid = currentGrid')
       /\ (pc = "loop" /\ pc' # "loop" /\ generations = 1 /\ AllZero(currentGrid)) =>
             (/\ stable'
              /\ pc' = "continueGame"
              /\ generations' = 1
              /\ AllZero(scratchGrid')
              /\ UNCHANGED currentGrid)
      ]_vars

\* The second iteration of a run on a 3 x 3 grid declared the all-zero grid
\* stable.
C19_Witness ==
    /\ DeclaredStable
    /\ generations = 1
    /\ currentGrid = NewGrid(3, 3)
    /\ scratchGrid = NewGrid(3, 3)

\* The 2 x 2 block with its four cells at the given age.
Block(age) ==
    [numRows |-> 2, numCols |-> 2, elems |-> [p \in Coords(2, 2) |-> age]]

\* C20: in a run started on the 2 x 2 block with all cells at age 1, every
\* generation keeps the four cells alive with ages raised by 1: the iteration
\* on the block at age a (after a - 1 committed generations) has the block at
\* age a + 1 as candidate; it is declared not stable and committed while
\* a + 1 < kMaxAge, and declared stable in the first iteration whose candidate
\* ages equal kMaxAge, where the run stops with the current grid's cells at
\* age kMaxAge - 1.
C20_BlockStopsAtMaxAge ==
    [][(/\ pc = "loop"
        /\ pc' # "loop"
        /\ generations + 1 < kMaxAge
        /\ currentGrid = Block(generations + 1)) =>
           /\ scratchGrid' = Block(generations + 2)
           /\ stable' = (generations + 2 = kMaxAge)
           /\ IF generations + 2 < kMaxAge
              THEN /\ pc' = "poll"
                   /\ currentGrid' = Block(generations + 2)
                   /\ generations' = generations + 1
              ELSE /\ pc' = "continueGame"
                   /\ currentGrid' = Block(kMaxAge - 1)
                   /\ generations' = generations
      ]_vars

\* The run on the block stopped by itself.
C20_Witness ==
    /\ DeclaredStable
    /\ generations = kMaxAge - 2
    /\ currentGrid = Block(kMaxAge - 1)
    /\ scratchGrid = Block(kMaxAge)

\* The grid holds a blinker and nothing else: three live cells in a line,
\* across or down, the outer two of age 1, around a centre whose four
\* orthogonal neighbours all lie in the grid.
IsBlinker(g) ==
    \E c \in Cells(g) : \E d \in {<<0, 1>>, <<1, 0>>} :
        /\ {<<c[1] - 1, c[2]>>, <<c[1] + 1, c[2]>>,
            <<c[1], c[2] - 1>>, <<c[1], c[2] + 1>>} \subseteq Cells(g)
        /\ LiveCells(g) = {<<c[1] - d[1], c[2] - d[2]>>, c,
                           <<c[1] + d[1], c[2] + d[2]>>}
        /\ g.elems[<<c[1] - d[1], c[2] - d[2]>>] = 1
        /\ g.elems[<<c[1] + d[1], c[2] + d[2]>>] = 1

\* C21: a run on a blinker (a period-2 oscillator: three live cells in a row
\* with no other live cell, on a grid of at least 3 x 3) is never declared
\* stable: in every iteration condition (b) fails, the candidate, the blinker
\* turned by a quarter, is committed, and the run goes on; it stops only by a
\* pointer click in modes 1-3 or the stop word in mode 4.
C21_BlinkerNeverStable ==
    [][(IsBlinker(currentGrid) /\ pc \in {"loop", "poll"}) =>
          /\ (pc = "loop" /\ pc' # "loop") =>
                (/\ ~stable'
                 /\ ~ConditionB(currentGrid, scratchGrid')
                 /\ pc' = "poll"
                 /\ generations' = generations + 1
                 /\ currentGrid' = scratchGrid'
                 /\ currentGrid' # currentGrid
                 /\ IsBlinker(currentGrid'))
          /\ (pc' = "continueGame") =>
                (/\ pc = "poll"
                 /\ ~stable'
                 /\ \/ Automatic /\ PolledEvent = "MOUSE_CLICKED"
                    \/ Manual /\ lineRead' = <<stopWord>>)
      ]_vars

\* A run started on a blinker is still running after more than kMaxAge
\* generations, its centre cell older than kMaxAge.
C21_Witness ==
    /\ pc = "poll"
    /\ IsBlinker(currentGrid)
    /\ generations > kMaxAge
    /\ \E p \in Cells(currentGrid) : currentGrid.elems[p] = generations + 1

====
